---------------------------- MODULE Spec2Model ----------------------------
(***************************************************************************)
(* A model of backend/main.py, the retrieval-augmented question-answering  *)
(* backend: the chunker (split_text_into_chunks), single-document          *)
(* ingestion (add_document), bulk ingestion (upload_pdfs), retrieval       *)
(* (search_document, search_top_documents) and answer synthesis            *)
(* (ask_question).                                                         *)
(*                                                                         *)
(* Text is a sequence of one-character strings.  The embedding service,    *)
(* the vector store, the PDF extractor and the generation service are      *)
(* external: each call to one of them is a step whose outcome (a value or  *)
(* a raised exception) is chosen nondeterministically.                     *)
(***************************************************************************)
EXTENDS Integers, Sequences, FiniteSets, TLC

(***************************************************************************)
(* Bounds of the model.                                                    *)
(***************************************************************************)
\* longest text handed to the chunker
MaxTextLen == 7
\* largest chunk_size handed to the chunker
MaxChunkSize == 3

Chars == {"a", "b"}

Min(a, b) == IF a <= b THEN a ELSE b

\* every sequence over S of length 0..n
SeqsUpTo(S, n) == UNION {[1..k -> S] : k \in 0..n}

(***************************************************************************)
(* Python values: a call either returns a value or raises.                 *)
(***************************************************************************)
NoException == [type |-> "none"]
Exception(t) == [type |-> t]
Return(v) == [ok |-> TRUE, value |-> v, exc |-> NoException]
Raise(e) == [ok |-> FALSE, value |-> <<>>, exc |-> e]

(***************************************************************************)
(* split_text_into_chunks (main.py 150-158)                                *)
(***************************************************************************)
\* a faulty variant of math_ceil_div: floor division
math_floor_div(a, b) == a \div b

\* math.ceil(a / b) for a >= 0, b > 0 (true division, then ceiling)
math_ceil_div(a, b) == (a + b - 1) \div b

\* a faulty variant of PySlice: the slice runs one character too far
PySliceOverlap(text, i, j) == SubSeq(text, i + 1, Min(j + 1, Len(text)))

\* text[i:j] for 0 <= i <= j: Python clips j to len(text)
PySlice(text, i, j) == SubSeq(text, i + 1, Min(j, Len(text)))

\* range(0, stop, step) as the sequence of its values, step > 0
PyRange0(stop, step) == [k \in 1..math_ceil_div(stop, step) |-> (k - 1) * step]

split_text_into_chunks(text, chunk_size) ==
    LET text_length == Len(text)
        num_chunks == math_ceil_div(text_length, chunk_size)
    IN  IF num_chunks = 0
        THEN \* math.ceil(text_length / num_chunks) divides by zero
             Raise(Exception("ZeroDivisionError"))
        ELSE LET adjusted_chunk_size == math_ceil_div(text_length, num_chunks)
                 starts == PyRange0(text_length, adjusted_chunk_size)
             IN  Return([k \in 1..Len(starts) |->
                           PySlice(text, starts[k], starts[k] + adjusted_chunk_size)])

(***************************************************************************)
(* HTTP outcomes.  An HTTPException is an Exception (fastapi.HTTPException *)
(* derives from Exception), so `except Exception` catches it.              *)
(***************************************************************************)
None == "None"
HTTPException(code, msg) ==
    [type |-> "HTTPException", status_code |-> code, detail |-> msg]
\* the response FastAPI sends: the handler's return value with status 200, or
\* the status and detail of the HTTPException it raised
NoResponse == [status_code |-> 0, detail |-> "", body |-> <<>>]
HTTPOk(b) == [status_code |-> 200, detail |-> "", body |-> b]
HTTPError(e) == [status_code |-> e.status_code, detail |-> e.detail, body |-> <<>>]

(***************************************************************************)
(* get_gemini_embedding (main.py 55-77): one POST to the embedding         *)
(* service.  Every exception of the call (network error, non-2xx status,   *)
(* a body without embedding.values) is caught and printed, and the         *)
(* function then falls off its end: it returns None.                       *)
(***************************************************************************)
EmbeddingOutcomes == {"ok", "network_error", "non_2xx", "malformed_body"}

\* a faulty variant of get_gemini_embedding: a failed call yields a dummy vector
get_gemini_embedding_dummy(outcome) == "vec"

get_gemini_embedding(outcome) == IF outcome = "ok" THEN "vec" ELSE None

(***************************************************************************)
(* search_document (main.py 125-147) after its embedding call, and         *)
(* search_top_documents (main.py 206-212).                                 *)
(***************************************************************************)
\* top-k of ask_question's retrieval
TopK == 10
\* most hits the store returns in the model
MaxHits == 3

Contents == {"", "x", "y"}
\* a payload is a dictionary: with a "content" key or without one (the
\* records add_document writes all have the key)
Payloads == {[k \in {} |-> ""]} \cup {[content |-> c] : c \in Contents}

\* the ranked hits of a search: descending score
HitsOf(ps) == [k \in 1..Len(ps) |->
                 [id |-> k, score |-> Len(ps) - k, payload |-> ps[k]]]

\* dict.get(key, default)
PyDictGet(d, key, default) == IF key \in DOMAIN d THEN d[key] ELSE default

\* qdrant.search(collection_name, query_vector, limit): the request fails
\* (store unreachable, collection missing, or no query vector: the client
\* cannot build a request from None), or the store answers with up to
\* `limit` hits
QdrantSearchOutcomes(query_vector, limit) ==
    {Raise(Exception("StoreFailure"))} \cup
    (IF query_vector = None
     THEN {}
     ELSE {Return(HitsOf(ps)) : ps \in SeqsUpTo(Payloads, Min(limit, MaxHits))})

\* lines 132-147, given what qdrant.search did
search_document(searched) ==
    IF ~searched.ok
    THEN Raise(HTTPException(500, "Search failed"))
    ELSE Return([results |->
                   [k \in 1..Len(searched.value) |->
                      [id |-> searched.value[k].id,
                       score |-> searched.value[k].score,
                       content |-> PyDictGet(searched.value[k].payload,
                                             "content", "")]]])

\* a faulty variant of PyTruthyContents: nothing is filtered out
PyAllContents(results) == [k \in 1..Len(results) |-> results[k].content]

\* [doc["content"] for doc in results if doc["content"]]: a string is truthy
\* when it is not empty
PyTruthyContents(results) ==
    LET F[k \in 0..Len(results)] ==
            IF k = 0 THEN <<>>
            ELSE IF results[k].content # ""
                 THEN Append(F[k - 1], results[k].content)
                 ELSE F[k - 1]
    IN  F[Len(results)]

\* lines 207-212, given what search_document did
search_top_documents(search_response) ==
    IF ~search_response.ok
    THEN Raise(HTTPException(500, "Document search failed"))
    ELSE Return(PyTruthyContents(search_response.value.results))

(***************************************************************************)
(* generate_answer_with_gemini (main.py 216-261): one POST; any exception  *)
(* becomes HTTPException(500).                                             *)
(***************************************************************************)
GenerationOutcomes == {"ok", "failed"}

generate_answer_with_gemini(outcome) ==
    IF outcome = "ok"
    THEN Return("answer")
    ELSE Raise(HTTPException(500, "Gemini API call failed"))

(***************************************************************************)
(* The vector store: one Qdrant server, shared by every worker process of  *)
(* the application.  q_exists: the collection COLLECTION_NAME exists;      *)
(* q_points: its records, as [id, content].                                *)
(***************************************************************************)
\* qdrant.upsert of one point: insert, or overwrite the record of that id
QdrantUpserted(points, id, content) ==
    {p \in points : p.id # id} \cup {[id |-> id, content |-> content]}

\* PointStruct(id, vector, payload) (lines 105-109): a pydantic model whose
\* vector field is required; a vector of None fails its validation, so the
\* point of a failed embedding call never reaches qdrant.upsert
PointStruct(id, vector, payload) ==
    IF vector = None
    THEN Raise(Exception("ValidationError"))
    ELSE Return([id |-> id, vector |-> vector, payload |-> payload])

\* lines 120-121: every exception of add_document's body becomes a 500
add_document_except(e) == HTTPException(500, "Error adding document")

(***************************************************************************)
(* State.                                                                  *)
(***************************************************************************)
VARIABLES
    \* --- a call of split_text_into_chunks
    c_pc,          \* "call" | "returned"
    c_text,        \* the argument text
    c_chunk_size,  \* the argument chunk_size
    c_ret,         \* what the call returned or raised
    \* --- one ask_question request
    a_pc,          \* "embed" | "search" | "generate" | "done"
    a_embedding,   \* what get_gemini_embedding returned to search_document
    a_hits,        \* search_result: what qdrant.search returned
    a_retrieval,   \* "pending" | "returned" | "raised": search_top_documents
    a_top_docs,    \* top_docs
    a_gen_calls,   \* calls of generate_answer_with_gemini made so far
    a_response,    \* the HTTP response of the request
    \* --- the vector store
    q_exists,      \* the collection exists
    q_points,      \* the records of the collection
    upsert_log,    \* history: every upsert the store applied, [id, content, flow]
    uuid_next,     \* the next value uuid.uuid4() gives: each call a new one
    \* --- requests (flows); each is handled by one worker process
    r_kind,        \* "add_document" | "upload_pdfs" | "none", per flow
    r_worker,      \* the worker process that handles the flow
    r_response,    \* the HTTP response of the flow
    loop,          \* per worker: the flow its event loop is running between
                   \* two awaits (0: none)
    \* --- the call of add_document a flow is in
    ad_pc,         \* "idle" | "embed" | "get_collections" | "recreate" |
                   \* "upsert" | "done"
    ad_content,    \* doc.content
    ad_outcome,    \* history: "none" | "ok" | "failed": the embedding call
    ad_embedding,  \* embedding
    ad_point_id,   \* point_id
    ad_ret,        \* what the call returned or raised
    \* --- one upload_pdfs request (flow UploadFlow)
    u_pc,            \* "idle" | "next_file" | "read" | "chunks" | "in_add" | "done"
    u_files,         \* files
    u_idx,           \* the position of `file` in files, from 1
    u_chunks,        \* chunks
    u_cidx,          \* idx of the chunk loop, from 0
    u_chunk_results, \* chunk_results
    u_responses,     \* responses
    u_calls          \* history, per file: the calls of add_document made for it

chunkVars == <<c_pc, c_text, c_chunk_size, c_ret>>
askVars == <<a_pc, a_embedding, a_hits, a_retrieval, a_top_docs, a_gen_calls,
             a_response>>

storeVars == <<q_exists, q_points, upsert_log, uuid_next>>
flowVars == <<r_kind, r_worker, r_response, loop>>
addVars == <<ad_pc, ad_content, ad_outcome, ad_embedding, ad_point_id, ad_ret>>
ingestVars == <<storeVars, flowVars, addVars>>

uploadVars == <<u_pc, u_files, u_idx, u_chunks, u_cidx, u_chunk_results,
                u_responses, u_calls>>
notIngestVars == <<chunkVars, askVars, uploadVars>>

vars == <<chunkVars, askVars, ingestVars, uploadVars>>

\* most concurrent requests, and the worker processes that serve them
NumFlows == 2
NumWorkers == 2
Flows == 1..NumFlows
Workers == 1..NumWorkers

\* the variables of a part of the program that a specification leaves out
ChunkIdle ==
    /\ c_pc = "returned"
    /\ c_text = <<>>
    /\ c_chunk_size = 1
    /\ c_ret = Return(<<>>)

AskIdle ==
    /\ a_pc = "done"
    /\ a_embedding = None
    /\ a_hits = <<>>
    /\ a_retrieval = "pending"
    /\ a_top_docs = <<>>
    /\ a_gen_calls = 0
    /\ a_response = NoResponse

IngestIdle ==
    /\ q_exists = FALSE
    /\ q_points = {}
    /\ upsert_log = {}
    /\ uuid_next = 1
    /\ r_kind = [f \in Flows |-> "none"]
    /\ r_worker = [f \in Flows |-> 1]
    /\ r_response = [f \in Flows |-> NoResponse]
    /\ loop = [w \in Workers |-> 0]
    /\ ad_pc = [f \in Flows |-> "idle"]
    /\ ad_content = [f \in Flows |-> <<>>]
    /\ ad_outcome = [f \in Flows |-> "none"]
    /\ ad_embedding = [f \in Flows |-> None]
    /\ ad_point_id = [f \in Flows |-> 0]
    /\ ad_ret = [f \in Flows |-> Return(<<>>)]

UploadIdle ==
    /\ u_pc = "idle"
    /\ u_files = <<>>
    /\ u_idx = 1
    /\ u_chunks = <<>>
    /\ u_cidx = 0
    /\ u_chunk_results = <<>>
    /\ u_responses = <<>>
    /\ u_calls = <<>>

(***************************************************************************)
(* The chunker called on any text and any positive chunk size.             *)
(***************************************************************************)
InitChunk ==
    /\ c_pc = "call"
    /\ c_text \in SeqsUpTo(Chars, MaxTextLen)
    /\ c_chunk_size \in 1..MaxChunkSize
    /\ c_ret = Return(<<>>)
    /\ AskIdle
    /\ IngestIdle
    /\ UploadIdle

CallSplit ==
    /\ c_pc = "call"
    /\ c_ret' = split_text_into_chunks(c_text, c_chunk_size)
    /\ c_pc' = "returned"
    /\ UNCHANGED <<c_text, c_chunk_size>>
    /\ UNCHANGED <<askVars, ingestVars, uploadVars>>

NextChunk == CallSplit

SpecChunk == InitChunk /\ [][NextChunk]_vars

(***************************************************************************)
(* ask_question (main.py 267-301).  The request awaits twice: the          *)
(* embedding call inside search_document and the generation call.  The     *)
(* whole body is inside `try: ... except Exception as e: raise             *)
(* HTTPException(500, "Answering failed: ...")`.                           *)
(***************************************************************************)
InitAsk ==
    /\ a_pc = "embed"
    /\ a_embedding = None
    /\ a_hits = <<>>
    /\ a_retrieval = "pending"
    /\ a_top_docs = <<>>
    /\ a_gen_calls = 0
    /\ a_response = NoResponse
    /\ ChunkIdle
    /\ IngestIdle
    /\ UploadIdle

\* the handler of line 300-301: every exception raised in the body, the
\* HTTPException of line 273 included, is replaced by a 500
ask_question_except(e) == HTTPException(500, "Answering failed")

\* line 131: embedding = await get_gemini_embedding(query)
AskEmbed ==
    /\ a_pc = "embed"
    /\ \E outcome \in EmbeddingOutcomes :
          a_embedding' = get_gemini_embedding(outcome)
    /\ a_pc' = "search"
    /\ UNCHANGED <<a_hits, a_retrieval, a_top_docs, a_gen_calls, a_response>>
    /\ UNCHANGED <<chunkVars, ingestVars, uploadVars>>

\* lines 132-145, 209-212 and 272-292: the search, the filter, the check
\* for no documents and the prompt, up to the generation call
AskSearch ==
    /\ a_pc = "search"
    /\ \E searched \in QdrantSearchOutcomes(a_embedding, TopK) :
          LET top == search_top_documents(search_document(searched))
          IN  /\ a_hits' = searched.value
              /\ IF ~top.ok
                 THEN /\ a_retrieval' = "raised"
                      /\ a_top_docs' = <<>>
                      /\ a_response' = HTTPError(ask_question_except(top.exc))
                      /\ a_pc' = "done"
                 ELSE /\ a_retrieval' = "returned"
                      /\ a_top_docs' = top.value
                      /\ IF top.value = <<>>
                         THEN \* line 273 raises HTTPException(404) inside the try
                              /\ a_response' = HTTPError(ask_question_except(
                                    HTTPException(404, "No relevant documents found.")))
                              /\ a_pc' = "done"
                         ELSE /\ a_response' = a_response
                              /\ a_pc' = "generate"
    /\ UNCHANGED <<a_embedding, a_gen_calls>>
    /\ UNCHANGED <<chunkVars, ingestVars, uploadVars>>

\* line 293: answer = await generate_answer_with_gemini(prompt)
AskGenerate ==
    /\ a_pc = "generate"
    /\ a_gen_calls' = a_gen_calls + 1
    /\ \E outcome \in GenerationOutcomes :
          LET answer == generate_answer_with_gemini(outcome)
          IN  a_response' =
                 IF ~answer.ok
                 THEN HTTPError(ask_question_except(answer.exc))
                 ELSE HTTPOk([question |-> "q", answer |-> answer.value])
    /\ a_pc' = "done"
    /\ UNCHANGED <<a_embedding, a_hits, a_retrieval, a_top_docs>>
    /\ UNCHANGED <<chunkVars, ingestVars, uploadVars>>

NextAsk == AskEmbed \/ AskSearch \/ AskGenerate

SpecAsk == InitAsk /\ [][NextAsk]_vars

(***************************************************************************)
(* add_document (main.py 82-121).  The handler is a coroutine: it yields   *)
(* at its one await, the embedding call (line 86).  From there to its end  *)
(* (lines 87-121) it makes only blocking calls of the synchronous Qdrant   *)
(* client, so no other coroutine of the same worker process runs in        *)
(* between (loop[w] is the flow that holds the worker's event loop).       *)
(* Another worker process, which talks to the same store, runs             *)
(* independently: its store calls interleave with this one's, one store    *)
(* call at a time.                                                         *)
(***************************************************************************)
\* the call ends: the flow gives up the event loop; a request to
\* /add_document is answered with the return value or with the exception
AddFinish(f, ret) ==
    /\ ad_ret' = [ad_ret EXCEPT ![f] = ret]
    /\ ad_pc' = [ad_pc EXCEPT ![f] = "done"]
    /\ loop' = [loop EXCEPT ![r_worker[f]] = 0]
    /\ r_response' =
          IF r_kind[f] = "add_document"
          THEN [r_response EXCEPT ![f] = IF ret.ok THEN HTTPOk(ret.value)
                                         ELSE HTTPError(ret.exc)]
          ELSE r_response

AddRaise(f, e) == AddFinish(f, Raise(add_document_except(e)))

\* a faulty variant of uuid_uuid4: an id cut down to one bit
uuid_truncated == uuid_next % 2

\* uuid.uuid4(): a value no earlier call gave
uuid_uuid4 == uuid_next

\* lines 86-87: the embedding call completes and the coroutine resumes;
\* point_id = str(uuid.uuid4())
AddEmbed(f) ==
    /\ ad_pc[f] = "embed"
    /\ loop[r_worker[f]] = 0
    /\ \E outcome \in EmbeddingOutcomes :
          /\ ad_outcome' = [ad_outcome EXCEPT
                               ![f] = IF outcome = "ok" THEN "ok" ELSE "failed"]
          /\ ad_embedding' = [ad_embedding EXCEPT ![f] = get_gemini_embedding(outcome)]
    /\ ad_point_id' = [ad_point_id EXCEPT ![f] = uuid_uuid4]
    /\ uuid_next' = uuid_next + 1
    /\ loop' = [loop EXCEPT ![r_worker[f]] = f]
    /\ ad_pc' = [ad_pc EXCEPT ![f] = "get_collections"]
    /\ UNCHANGED <<q_exists, q_points, upsert_log, r_kind, r_worker, r_response,
                   ad_content, ad_ret>>
    /\ UNCHANGED notIngestVars

\* lines 90-93: qdrant.get_collections() and the test for COLLECTION_NAME
AddGetCollections(f) ==
    /\ ad_pc[f] = "get_collections"
    /\ \/ \* the store answers
          /\ ad_pc' = [ad_pc EXCEPT ![f] = IF q_exists THEN "upsert" ELSE "recreate"]
          /\ UNCHANGED <<loop, r_response, ad_ret>>
       \/ \* the call fails
          AddRaise(f, Exception("StoreFailure"))
    /\ UNCHANGED <<storeVars, r_kind, r_worker, ad_content, ad_outcome,
                   ad_embedding, ad_point_id>>
    /\ UNCHANGED notIngestVars

\* lines 94-102: qdrant.recreate_collection(...): the client deletes the
\* collection, with every record in it, and creates it anew
AddRecreate(f) ==
    /\ ad_pc[f] = "recreate"
    /\ \/ \* both requests succeed
          /\ q_exists' = TRUE
          /\ q_points' = {}
          /\ ad_pc' = [ad_pc EXCEPT ![f] = "upsert"]
          /\ UNCHANGED <<loop, r_response, ad_ret>>
       \/ \* the call fails before the store changed anything
          /\ UNCHANGED <<q_exists, q_points>>
          /\ AddRaise(f, Exception("StoreFailure"))
       \/ \* the delete succeeded and the create failed
          /\ q_exists' = FALSE
          /\ q_points' = {}
          /\ AddRaise(f, Exception("StoreFailure"))
    /\ UNCHANGED <<upsert_log, uuid_next, r_kind, r_worker, ad_content,
                   ad_outcome, ad_embedding, ad_point_id>>
    /\ UNCHANGED notIngestVars

\* lines 105-121: the point, qdrant.upsert(...) and the return
AddUpsert(f) ==
    /\ ad_pc[f] = "upsert"
    /\ LET point == PointStruct(ad_point_id[f], ad_embedding[f],
                                [content |-> ad_content[f]])
           applied ==
               /\ q_points' = QdrantUpserted(q_points, point.value.id,
                                             point.value.payload.content)
               /\ upsert_log' = upsert_log \cup
                     {[id |-> point.value.id,
                       content |-> point.value.payload.content, flow |-> f]}
       IN  IF ~point.ok
           THEN /\ AddRaise(f, point.exc)
                /\ UNCHANGED <<q_points, upsert_log>>
           ELSE \/ \* the store has the collection and writes the record
                   /\ q_exists
                   /\ applied
                   /\ AddFinish(f, Return([status |-> "success",
                                           id |-> ad_point_id[f]]))
                \/ \* the store has no such collection, or cannot be reached
                   /\ UNCHANGED <<q_points, upsert_log>>
                   /\ AddRaise(f, Exception("StoreFailure"))
                \/ \* the store writes the record and its answer is lost
                   /\ q_exists
                   /\ applied
                   /\ AddRaise(f, Exception("StoreFailure"))
    /\ UNCHANGED <<q_exists, uuid_next, r_kind, r_worker, ad_content,
                   ad_outcome, ad_embedding, ad_point_id>>
    /\ UNCHANGED notIngestVars

(***************************************************************************)
(* Concurrent requests to /add_document.                                   *)
(***************************************************************************)
DocContents == {<<"a">>, <<"b">>}

InitIngest ==
    /\ q_exists \in BOOLEAN
    /\ q_points = {}
    /\ upsert_log = {}
    /\ uuid_next = 1
    /\ r_kind = [f \in Flows |-> "add_document"]
    /\ r_worker \in [Flows -> Workers]
    /\ r_response = [f \in Flows |-> NoResponse]
    /\ loop = [w \in Workers |-> 0]
    /\ ad_pc = [f \in Flows |-> "embed"]
    /\ ad_content \in [Flows -> DocContents]
    /\ ad_outcome = [f \in Flows |-> "none"]
    /\ ad_embedding = [f \in Flows |-> None]
    /\ ad_point_id = [f \in Flows |-> 0]
    /\ ad_ret = [f \in Flows |-> Return(<<>>)]
    /\ ChunkIdle
    /\ AskIdle
    /\ UploadIdle

NextIngest ==
    \E f \in Flows :
        \/ AddEmbed(f)
        \/ AddGetCollections(f)
        \/ AddRecreate(f)
        \/ AddUpsert(f)

SpecIngest == InitIngest /\ [][NextIngest]_vars

(***************************************************************************)
(* upload_pdfs (main.py 161-203).  A file is its name, whether PyMuPDF can *)
(* open its bytes, and the text of its pages.  The handler yields at       *)
(* `await file.read()` and, inside add_document, at the embedding call.    *)
(* SpecUpload runs one upload request alone, on one worker process.        *)
(***************************************************************************)
\* the chunk size of the model's uploads: stands for CHUNK_SIZE (5000), the
\* default chunk_size of split_text_into_chunks, scaled to the model's texts
ChunkSizeScaled == 2
\* most files in one upload
MaxFiles == 3

UploadFlow == 1

File(stem, ext, readable, text) ==
    [filename |-> [stem |-> stem, ext |-> ext], readable |-> readable,
     text |-> text]

UploadFiles ==
    { File("notes", ".txt", TRUE, <<"a">>),
      File("blank", ".pdf", TRUE, <<>>),
      File("scan", ".pdf", TRUE, <<" ", " ">>),
      File("broken", ".pdf", FALSE, <<>>),
      File("one", ".PDF", TRUE, <<"a", " ">>),
      File("three", ".pdf", TRUE, <<"a", "b", "b", "a", "a">>) }

\* str.lower() of a file name's ending
PyLower(s) == CASE s = ".PDF" -> ".pdf"
                [] s = ".TXT" -> ".txt"
                [] OTHER -> s

\* file.filename.lower().endswith(".pdf")
IsPdfName(filename) == PyLower(filename.ext) = ".pdf"

\* str.strip(): the text without its leading and trailing whitespace
PyStrip(text) ==
    LET solid == {i \in 1..Len(text) : text[i] # " "}
    IN  IF solid = {}
        THEN <<>>
        ELSE SubSeq(text, CHOOSE i \in solid : \A j \in solid : i <= j,
                          CHOOSE i \in solid : \A j \in solid : j <= i)

ErrorEntry(filename, msg) == [filename |-> filename, error |-> msg]

\* lines 193-198
SuccessEntry(filename, chunk_results) ==
    [filename |-> filename, status |-> "success",
     chunks_uploaded |-> Len(chunk_results), chunks |-> chunk_results]

\* lines 188-191
ChunkResult(idx, result) == [chunk_index |-> idx, chunk_id |-> result.id]

\* a faulty variant of UploadContinue: the entry is appended and the loop is left
UploadBreak(entry) ==
    /\ u_responses' = Append(u_responses, entry)
    /\ u_idx' = Len(u_files) + 1
    /\ u_pc' = "next_file"
    /\ u_chunks' = <<>>
    /\ u_cidx' = 0
    /\ u_chunk_results' = <<>>

\* responses.append(entry), then the next iteration of `for file in files`
\* (the `continue` of lines 168 and 179, the end of the loop body, and the
\* end of the except clause of lines 200-201)
UploadContinue(entry) ==
    /\ u_responses' = Append(u_responses, entry)
    /\ u_idx' = u_idx + 1
    /\ u_pc' = "next_file"
    /\ u_chunks' = <<>>
    /\ u_cidx' = 0
    /\ u_chunk_results' = <<>>

\* lines 200-201: except Exception as e: the file's entry is the error
UploadExcept(e) ==
    UploadContinue(ErrorEntry(u_files[u_idx].filename, e.type))

AddCallIdle(f) ==
    /\ ad_pc' = [ad_pc EXCEPT ![f] = "idle"]
    /\ ad_content' = [ad_content EXCEPT ![f] = <<>>]
    /\ ad_outcome' = [ad_outcome EXCEPT ![f] = "none"]
    /\ ad_embedding' = [ad_embedding EXCEPT ![f] = None]
    /\ ad_point_id' = [ad_point_id EXCEPT ![f] = 0]
    /\ ad_ret' = [ad_ret EXCEPT ![f] = Return(<<>>)]

\* lines 164-170: the next file, the test of its name, `await file.read()`;
\* after the last file, line 203: return {"results": responses}
UploadFileStart ==
    /\ u_pc = "next_file"
    /\ IF u_idx > Len(u_files)
       THEN /\ u_pc' = "done"
            /\ r_response' = [r_response EXCEPT
                                 ![UploadFlow] = HTTPOk([results |-> u_responses])]
            /\ UNCHANGED <<u_idx, u_chunks, u_cidx, u_chunk_results, u_responses>>
       ELSE /\ IF ~IsPdfName(u_files[u_idx].filename)
               THEN UploadContinue(ErrorEntry(u_files[u_idx].filename,
                                              "Only PDF files are supported."))
               ELSE /\ u_pc' = "read"
                    /\ UNCHANGED <<u_idx, u_chunks, u_cidx, u_chunk_results,
                                   u_responses>>
            /\ UNCHANGED r_response
    /\ UNCHANGED <<u_files, u_calls, storeVars, r_kind, r_worker, loop, addVars>>
    /\ UNCHANGED <<chunkVars, askVars>>

\* lines 170-183: the bytes are read, PyMuPDF opens them (or raises) and
\* gives the text of the pages; the text is tested and split
UploadFileRead ==
    /\ u_pc = "read"
    /\ LET file == u_files[u_idx]
           full_text == file.text
           chunks == split_text_into_chunks(full_text, ChunkSizeScaled)
       IN  IF ~file.readable
           THEN UploadExcept(Exception("FileDataError"))
           ELSE IF PyStrip(full_text) = <<>>
           THEN UploadContinue(ErrorEntry(file.filename,
                                          "No readable text found in PDF."))
           ELSE IF ~chunks.ok
           THEN UploadExcept(chunks.exc)
           ELSE /\ u_chunks' = chunks.value
                /\ u_chunk_results' = <<>>
                /\ u_cidx' = 0
                /\ u_pc' = "chunks"
                /\ UNCHANGED <<u_idx, u_responses>>
    /\ UNCHANGED <<u_files, u_calls, ingestVars>>
    /\ UNCHANGED <<chunkVars, askVars>>

\* lines 185-187: the next chunk: add_document(DocumentInput(content=chunk))
\* is called; after the last chunk, lines 193-198: the file's success entry
UploadChunk ==
    /\ u_pc = "chunks"
    /\ IF u_cidx < Len(u_chunks)
       THEN /\ ad_pc' = [ad_pc EXCEPT ![UploadFlow] = "embed"]
            /\ ad_content' = [ad_content EXCEPT ![UploadFlow] = u_chunks[u_cidx + 1]]
            /\ u_calls' = [u_calls EXCEPT ![u_idx] =
                             Append(@, [chunk_index |-> u_cidx,
                                        content |-> u_chunks[u_cidx + 1],
                                        state |-> "running", id |-> 0])]
            /\ u_pc' = "in_add"
            /\ UNCHANGED <<u_idx, u_chunks, u_cidx, u_chunk_results, u_responses>>
       ELSE /\ UploadContinue(SuccessEntry(u_files[u_idx].filename,
                                           u_chunk_results))
            /\ UNCHANGED <<ad_pc, ad_content, u_calls>>
    /\ UNCHANGED <<u_files, storeVars, flowVars, ad_outcome, ad_embedding,
                   ad_point_id, ad_ret>>
    /\ UNCHANGED <<chunkVars, askVars>>

\* a faulty variant of UploadAddDone: a failed chunk is skipped, the loop goes on
UploadAddDoneSkip ==
    /\ u_pc = "in_add"
    /\ ad_pc[UploadFlow] = "done"
    /\ LET result == ad_ret[UploadFlow]
           n == Len(u_calls[u_idx])
       IN  /\ u_chunk_results' =
                 IF result.ok
                 THEN Append(u_chunk_results, ChunkResult(u_cidx, result.value))
                 ELSE u_chunk_results
           /\ u_calls' = [u_calls EXCEPT ![u_idx][n].state =
                             IF result.ok THEN "ok" ELSE "failed"]
    /\ u_cidx' = u_cidx + 1
    /\ u_pc' = "chunks"
    /\ AddCallIdle(UploadFlow)
    /\ UNCHANGED <<u_idx, u_chunks, u_responses>>
    /\ UNCHANGED <<u_files, storeVars, flowVars>>
    /\ UNCHANGED <<chunkVars, askVars>>

\* lines 187-191: add_document returned: its id is appended to
\* chunk_results; or it raised, and lines 200-201 handle the exception
UploadAddDone ==
    /\ u_pc = "in_add"
    /\ ad_pc[UploadFlow] = "done"
    /\ LET result == ad_ret[UploadFlow]
           n == Len(u_calls[u_idx])
       IN  IF result.ok
           THEN /\ u_chunk_results' =
                      Append(u_chunk_results, ChunkResult(u_cidx, result.value))
                /\ u_cidx' = u_cidx + 1
                /\ u_pc' = "chunks"
                /\ u_calls' = [u_calls EXCEPT ![u_idx][n].state = "ok",
                                              ![u_idx][n].id = result.value.id]
                /\ UNCHANGED <<u_idx, u_chunks, u_responses>>
           ELSE /\ UploadContinue(ErrorEntry(u_files[u_idx].filename,
                                             result.exc.detail))
                /\ u_calls' = [u_calls EXCEPT ![u_idx][n].state = "failed"]
    /\ AddCallIdle(UploadFlow)
    /\ UNCHANGED <<u_files, storeVars, flowVars>>
    /\ UNCHANGED <<chunkVars, askVars>>

InitUpload ==
    /\ q_exists \in BOOLEAN
    /\ q_points = {}
    /\ upsert_log = {}
    /\ uuid_next = 1
    /\ r_kind = [f \in Flows |-> IF f = UploadFlow THEN "upload_pdfs" ELSE "none"]
    /\ r_worker = [f \in Flows |-> 1]
    /\ r_response = [f \in Flows |-> NoResponse]
    /\ loop = [w \in Workers |-> 0]
    /\ ad_pc = [f \in Flows |-> "idle"]
    /\ ad_content = [f \in Flows |-> <<>>]
    /\ ad_outcome = [f \in Flows |-> "none"]
    /\ ad_embedding = [f \in Flows |-> None]
    /\ ad_point_id = [f \in Flows |-> 0]
    /\ ad_ret = [f \in Flows |-> Return(<<>>)]
    /\ u_pc = "next_file"
    /\ u_files \in SeqsUpTo(UploadFiles, MaxFiles) \ {<<>>}
    /\ u_idx = 1
    /\ u_chunks = <<>>
    /\ u_cidx = 0
    /\ u_chunk_results = <<>>
    /\ u_responses = <<>>
    /\ u_calls = [i \in 1..Len(u_files) |-> <<>>]
    /\ ChunkIdle
    /\ AskIdle

NextUpload ==
    \/ UploadFileStart
    \/ UploadFileRead
    \/ UploadChunk
    \/ UploadAddDone
    \/ AddEmbed(UploadFlow)
    \/ AddGetCollections(UploadFlow)
    \/ AddRecreate(UploadFlow)
    \/ AddUpsert(UploadFlow)

SpecUpload == InitUpload /\ [][NextUpload]_vars

(***************************************************************************)
(* Properties of bulk ingestion, checked under SpecUpload.                 *)
(***************************************************************************)
NameEndsInPdf(file) == file.filename.ext \in {".pdf", ".PDF"}
TextBlank(file) == \A i \in 1..Len(file.text) : file.text[i] = " "
\* the file gets as far as the chunk loop
Ingestible(file) == NameEndsInPdf(file) /\ file.readable /\ ~TextBlank(file)
FileChunks(file) == split_text_into_chunks(file.text, ChunkSizeScaled).value

IsErrorEntry(e) == DOMAIN e = {"filename", "error"}
IsSuccessEntry(e) ==
    /\ DOMAIN e = {"filename", "status", "chunks_uploaded", "chunks"}
    /\ e.status = "success"

Reported == 1..Len(u_responses)
FailedCalls(i) == {k \in 1..Len(u_calls[i]) : u_calls[i][k].state = "failed"}
Upserted(id, content) ==
    [id |-> id, content |-> content, flow |-> UploadFlow] \in upsert_log

\* C2 as stated: a failure while ingesting chunk k does not prevent the
\* ingestion of the later chunks of the file: every chunk of a reported file
\* has been attempted, and the chunks that succeeded are in the file's
\* per-chunk result.
C2_EveryChunkAttempted ==
    \A i \in Reported :
        Ingestible(u_files[i]) =>
            /\ Len(u_calls[i]) = Len(FileChunks(u_files[i]))
            /\ \A k \in 1..Len(u_calls[i]) :
                  u_calls[i][k].state = "ok" =>
                      /\ "chunks" \in DOMAIN u_responses[i]
                      /\ \E c \in 1..Len(u_responses[i].chunks) :
                            u_responses[i].chunks[c].chunk_id = u_calls[i][k].id

\* C2 amended: a failure while ingesting chunk k ends the processing of that
\* file: the chunks after k are not attempted and the file's entry is
\* {filename, error}, without per-chunk result; the chunks before k have been
\* upserted and upload_pdfs does not roll them back; the chunks are attempted
\* in order; and the files after it are still processed.
C2_ChunkFailureEndsFile ==
    /\ \A i \in Reported :
          LET calls == u_calls[i]
              chunks == FileChunks(u_files[i])
          IN  Ingestible(u_files[i]) =>
                /\ Len(calls) >= 1
                /\ Len(calls) <= Len(chunks)
                /\ \A k \in 1..Len(calls) :
                      /\ calls[k].chunk_index = k - 1
                      /\ calls[k].content = chunks[k]
                      /\ k < Len(calls) =>
                            /\ calls[k].state = "ok"
                            /\ Upserted(calls[k].id, chunks[k])
                /\ calls[Len(calls)].state \in {"ok", "failed"}
                /\ calls[Len(calls)].state = "failed" =>
                      IsErrorEntry(u_responses[i])
                /\ calls[Len(calls)].state = "ok" =>
                      /\ Len(calls) = Len(chunks)
                      /\ IsSuccessEntry(u_responses[i])
    /\ u_pc = "done" => Len(u_responses) = Len(u_files)

\* the middle chunk of a file of three chunks failed, the first is in the
\* store, the third was never attempted, and the next file succeeded
C2_Witness ==
    /\ u_pc = "done"
    /\ Len(u_files) >= 2
    /\ Len(FileChunks(u_files[1])) = 3
    /\ Len(u_calls[1]) = 2
    /\ u_calls[1][1].state = "ok"
    /\ u_calls[1][2].state = "failed"
    /\ \E p \in q_points : p.id = u_calls[1][1].id
    /\ IsSuccessEntry(u_responses[2])

\* C5: the response holds one entry per file, in input order; a file whose
\* name does not end in .pdf, whose text is empty or whitespace, or whose
\* processing raises gets an error entry; and the entry of a file is decided
\* by that file and the calls of add_document made for its own chunks alone,
\* whatever the files before and after it are and however they ended.
C5_FilesIsolated ==
    /\ Len(u_responses) = u_idx - 1
    /\ Len(u_responses) <= Len(u_files)
    /\ u_pc = "done" =>
          /\ Len(u_responses) = Len(u_files)
          /\ r_response[UploadFlow] = HTTPOk([results |-> u_responses])
    /\ \A i \in 1..Len(u_files) : i > u_idx => u_calls[i] = <<>>
    /\ \A i \in Reported :
          LET file == u_files[i]
              calls == u_calls[i]
              e == u_responses[i]
          IN  /\ e.filename = file.filename
              /\ ~Ingestible(file) => IsErrorEntry(e) /\ calls = <<>>
              /\ Ingestible(file) =>
                    /\ \A k \in 1..Len(calls) :
                          calls[k].content = FileChunks(file)[k]
                    /\ IF FailedCalls(i) # {}
                       THEN IsErrorEntry(e)
                       ELSE e = [filename |-> file.filename,
                                 status |-> "success",
                                 chunks_uploaded |-> Len(FileChunks(file)),
                                 chunks |-> [k \in 1..Len(FileChunks(file)) |->
                                               [chunk_index |-> k - 1,
                                                chunk_id |-> calls[k].id]]]

\* three files, the second without text: the first and the third succeeded
C5_Witness ==
    /\ u_pc = "done"
    /\ Len(u_files) = 3
    /\ TextBlank(u_files[2]) /\ NameEndsInPdf(u_files[2])
    /\ IsSuccessEntry(u_responses[1])
    /\ IsErrorEntry(u_responses[2])
    /\ IsSuccessEntry(u_responses[3])

\* C10: a file reported with status "success" has all of its chunks
\* committed one after the other: chunks_uploaded is the number of chunks
\* the chunker gives for its text, the chunk_index values are 0..n-1 in
\* order, the chunk_ids are pairwise distinct, each chunk_id is the id of a
\* record upserted with that chunk as content, and a call of add_document
\* for a chunk is made only when the calls for the chunks before it have
\* returned with their records upserted.
C10_SuccessMeansAllChunksInOrder ==
    /\ \A i \in Reported :
          IsSuccessEntry(u_responses[i]) =>
             LET chunks == FileChunks(u_files[i])
                 cs == u_responses[i].chunks
             IN  /\ u_responses[i].chunks_uploaded = Len(chunks)
                 /\ Len(cs) = Len(chunks)
                 /\ \A k \in 1..Len(cs) :
                       /\ cs[k].chunk_index = k - 1
                       /\ Upserted(cs[k].chunk_id, chunks[k])
                 /\ \A j, k \in 1..Len(cs) :
                       j # k => cs[j].chunk_id # cs[k].chunk_id
    /\ \A i \in 1..Len(u_calls) :
          \A k \in 1..Len(u_calls[i]) :
             /\ k < Len(u_calls[i]) =>
                   /\ u_calls[i][k].state = "ok"
                   /\ Upserted(u_calls[i][k].id, u_calls[i][k].content)
             /\ u_calls[i][k].state = "running" =>
                   /\ i = u_idx
                   /\ u_pc = "in_add"
                   /\ ad_pc[UploadFlow] \in {"embed", "get_collections",
                                              "recreate", "upsert", "done"}
                   /\ ad_content[UploadFlow] = u_calls[i][k].content

\* a file of three chunks is reported with status "success"
C10_Witness ==
    \E i \in Reported :
        /\ IsSuccessEntry(u_responses[i])
        /\ u_responses[i].chunks_uploaded = 3
        /\ u_responses[i].chunks[1].chunk_id # u_responses[i].chunks[3].chunk_id

(***************************************************************************)
(* Properties of single-document ingestion, checked under SpecIngest.      *)
(***************************************************************************)
AddSucceeded(f) == r_response[f].status_code = 200
EmbeddingFailed(f) == ad_outcome[f] = "failed"

\* C3: add_document answers {status: "success", id} only after a record with
\* that id and the submitted content has been upserted, and answers with
\* HTTP 500 otherwise; when the embedding call fails (network error, non-2xx,
\* malformed body) the request ends with the error and the store applied no
\* upsert for it.
C3_AddDocumentAllOrNothing ==
    \A f \in Flows :
        r_kind[f] = "add_document" =>
            /\ AddSucceeded(f) =>
                  /\ r_response[f].body.status = "success"
                  /\ [id |-> r_response[f].body.id, content |-> ad_content[f],
                      flow |-> f] \in upsert_log
            /\ ad_pc[f] = "done" => r_response[f].status_code \in {200, 500}
            /\ ad_pc[f] # "done" => r_response[f] = NoResponse
            /\ EmbeddingFailed(f) =>
                  /\ \A u \in upsert_log : u.flow # f
                  /\ ad_pc[f] = "done" => r_response[f].status_code = 500

\* one request has succeeded and another has failed on its embedding call
C3_Witness ==
    \E f, g \in Flows :
        /\ r_kind[f] = "add_document" /\ AddSucceeded(f)
        /\ r_kind[g] = "add_document" /\ EmbeddingFailed(g) /\ ad_pc[g] = "done"
        /\ r_response[g].status_code = 500

\* C4: lazy collection creation is safe under concurrent ingestion: once
\* add_document has answered success for an id, the collection exists and
\* holds the record of that id, whatever create steps the other flows take.
C4_CreateKeepsCommittedRecords ==
    \A f \in Flows :
        AddSucceeded(f) =>
            /\ q_exists
            /\ \E p \in q_points :
                  p.id = r_response[f].body.id /\ p.content = ad_content[f]

(***************************************************************************)
(* Properties of retrieval and answer synthesis, checked under SpecAsk.    *)
(***************************************************************************)
\* C1: whenever retrieval yields zero non-empty contents, the request ends
\* with the "not found" outcome (HTTP 404, detail "No relevant documents
\* found.") and the generation service is never called.
C1_NoDocumentsIsNotFound ==
    (a_pc = "done" /\ a_retrieval = "returned" /\ a_top_docs = <<>>) =>
        /\ a_response.status_code = 404
        /\ a_response.detail = "No relevant documents found."
        /\ a_gen_calls = 0

\* the content of hit i as the store returned it; no content field is empty
HitContent(i) ==
    IF "content" \in DOMAIN a_hits[i].payload
    THEN a_hits[i].payload.content
    ELSE ""

\* the hits whose content is not empty
KeptHits == {i \in 1..Len(a_hits) : HitContent(i) # ""}

\* C9: search_top_documents returns exactly the contents of the hits whose
\* content is non-empty (a missing content field counts as empty), in the
\* order of the store's ranked result: the j-th returned string is the
\* content of the j-th such hit, and there are no other strings.
C9_RetrievalFiltersEmpty ==
    a_retrieval = "returned" =>
        /\ Len(a_top_docs) = Cardinality(KeptHits)
        /\ \A i \in KeptHits :
              a_top_docs[Cardinality({j \in KeptHits : j <= i})] = HitContent(i)

\* a hit without content field between two hits with different contents
C9_Witness ==
    /\ a_retrieval = "returned"
    /\ Len(a_hits) = 3
    /\ DOMAIN a_hits[2].payload = {}
    /\ Len(a_top_docs) = 2
    /\ a_top_docs[1] # a_top_docs[2]

(***************************************************************************)
(* Properties of the chunker, checked under SpecChunk.                     *)
(***************************************************************************)
\* the ceiling of a / b, stated by its defining inequalities
CeilQ(a, b) == CHOOSE q \in 0..a : q * b >= a /\ (q - 1) * b < a

RECURSIVE Concat(_)
Concat(ss) == IF ss = <<>> THEN <<>> ELSE Head(ss) \o Concat(Tail(ss))

RECURSIVE SumLen(_, _)
\* the total length of the first k sequences of ss
SumLen(ss, k) == IF k = 0 THEN 0 ELSE SumLen(ss, k - 1) + Len(ss[k])

ChunkCallReturned == c_pc = "returned" /\ Len(c_text) > 0

\* C6: for every non-empty text and positive target size the chunks are
\* non-empty, each is the slice of the text that follows the previous chunk
\* (so they do not overlap), their concatenation is the text, none is longer
\* than ceil(length / ceil(length / target_size)), hence none longer than the
\* target size, and a text no longer than the target size gives one chunk
\* equal to the text.
C6_ChunksReconstituteText ==
    ChunkCallReturned =>
        LET L == Len(c_text)
            chunks == c_ret.value
            bound == CeilQ(L, CeilQ(L, c_chunk_size))
        IN  /\ c_ret.ok
            /\ \A k \in 1..Len(chunks) :
                  /\ Len(chunks[k]) >= 1
                  /\ Len(chunks[k]) <= bound
                  /\ Len(chunks[k]) <= c_chunk_size
                  /\ chunks[k] = SubSeq(c_text, SumLen(chunks, k - 1) + 1,
                                        SumLen(chunks, k))
            /\ Concat(chunks) = c_text
            /\ (L <= c_chunk_size => chunks = <<c_text>>)

\* a text of several chunks has been split, and one that fits in one chunk
C6_Witness ==
    /\ ChunkCallReturned
    /\ c_ret.ok
    /\ Len(c_ret.value) >= 3
    /\ Len(c_text) > 2 * c_chunk_size
    /\ c_ret.value[1] # c_ret.value[2]

\* C7: split_text_into_chunks is total: a call never raises, and the empty
\* string gives the empty sequence.
C7_ChunkerTotal ==
    c_pc = "returned" =>
        /\ c_ret.ok
        /\ (c_text = <<>> => c_ret.value = <<>>)

\* C8 as stated: the number of chunks is ceil(length / target_size) and any
\* two chunks differ in length by at most 1.
C8_ChunksNearlyEqual ==
    ChunkCallReturned =>
        LET chunks == c_ret.value
        IN  /\ c_ret.ok
            /\ Len(chunks) = CeilQ(Len(c_text), c_chunk_size)
            /\ \A j, k \in 1..Len(chunks) :
                  Len(chunks[j]) - Len(chunks[k]) <= 1

\* C8 amended: the number of chunks is ceil(length / target_size); every
\* chunk but the last has length ceil(length / number of chunks); the last
\* chunk is non-empty, no longer than the others, and shorter than them by
\* less than the number of chunks.
C8_ChunksEqualButLast ==
    ChunkCallReturned =>
        LET L == Len(c_text)
            chunks == c_ret.value
            n == Len(chunks)
            a == CeilQ(L, n)
        IN  /\ c_ret.ok
            /\ n = CeilQ(L, c_chunk_size)
            /\ \A k \in 1..(n - 1) : Len(chunks[k]) = a
            /\ Len(chunks[n]) >= 1
            /\ Len(chunks[n]) <= a
            /\ a - Len(chunks[n]) < n

\* the last chunk is shorter than the others by two or more
C8_Witness ==
    /\ ChunkCallReturned
    /\ c_ret.ok
    /\ Len(c_ret.value) >= 2
    /\ Len(c_ret.value[1]) - Len(c_ret.value[Len(c_ret.value)]) >= 2

=============================================================================
